---- MODULE Spec2Model ----
(***************************************************************************)
(* RobHoot quiz server (src/server.js): the single process-wide game, the  *)
(* host and player WebSocket handlers, the one-second countdown and the    *)
(* scoring done at reveal.  Every handler runs to completion (Node's event *)
(* loop), so each handler is one action.                                   *)
(***************************************************************************)
EXTENDS Integers, Sequences, FiniteSets, TLC

\* ---------------------------------------------------------------- bounds
MaxHostConns == 2       \* host sockets open at the same time
MaxPlayerConns == 2     \* player sockets that ever connect
MaxWrites == 1          \* times questions.csv is rewritten
MaxPlayerId == 2        \* cap on nextPlayerId (joins stop at the cap)
RandDenom == 1          \* Math.random() draws k / RandDenom, k < RandDenom

HConns == 1..MaxHostConns
PConns == 1..MaxPlayerConns

\* ------------------------------------------------------- JS value stand-ins
\* null and NaN for number-valued fields: two integers outside every domain
\* the model uses for real numbers (ids, indices, seconds, scores).
null == -1000
NaN == -2000
isNaN(x) == x = NaN

\* ---------------------------------------------------------- question source
\* A CSV row after parseCSV: the four option cells and the raw cells of
\* `correct` and `time_limit` (an integer, or NaN when parseInt fails).
Row(o, c, t) == [options |-> o, correct |-> c, time_limit |-> t]

DefaultTimeLimit == 20

RECURSIVE filterNonEmpty(_)
filterNonEmpty(s) ==
    IF s = <<>> THEN <<>>
    ELSE IF Head(s) # "" THEN <<Head(s)>> \o filterNonEmpty(Tail(s))
         ELSE filterNonEmpty(Tail(s))

\* parseInt(q.time_limit, 10) || 20 : NaN and 0 are falsy.
timeLimitOf(t) == IF isNaN(t) \/ t = 0 THEN DefaultTimeLimit ELSE t

loadQuestions(file) ==
    LET rows == file.rows IN
    [i \in 1..Len(rows) |->
        [options |-> filterNonEmpty(rows[i].options),
         correct |-> rows[i].correct,
         timeLimit |-> timeLimitOf(rows[i].time_limit)]]

\* Contents questions.csv may have: the rows below its header line, or a file
\* that cannot be read (readFileSync throws).
File(rows) == [readable |-> TRUE, rows |-> rows]
CsvEmpty == File(<<>>)
CsvTwo == File(<< Row(<<"x", "y", "", "">>, 2, 2),
                  Row(<<"x", "y", "z", "">>, 4, -1) >>)
CsvFiles == {CsvEmpty, CsvTwo}
Unreadable == [readable |-> FALSE, rows |-> <<>>]

\* ------------------------------------------------------------------ state
VARIABLES
    csv,            \* content of questions.csv on disk
    writes,         \* history: how often the file has been rewritten
    questions,      \* module-level `questions`
    game,           \* the `game` object
    nextPlayerId,   \* module-level counter
    hostReady,      \* per host socket: is its readyState OPEN
    playerReady,    \* per player socket: not yet connected, OPEN or CLOSED
    playerId,       \* handlePlayer's closure variable, per player socket
    intervals,      \* setInterval handles not yet cleared
    stale           \* history: sockets whose join predates the last reset

vars == <<csv, writes, questions, game, nextPlayerId, hostReady, playerReady,
          playerId, intervals, stale>>

NoHost == 0

Msg(to, t, d) == [to |-> to, type |-> t, data |-> d]
ToHost(h) == <<"host", h>>
ToPlayer(c) == <<"player", c>>

\* What a handler reads and writes, threaded through the calls it makes;
\* `out` collects the messages it sends, in order.
World == [game |-> game, questions |-> questions, intervals |-> intervals,
          nextPlayerId |-> nextPlayerId, playerId |-> playerId, out |-> <<>>]

\* -------------------------------------------------------------- helpers
\* A JavaScript expression is evaluated once and its value is then used by
\* name: F is applied to the value of e.
Once(e, F(_)) == CHOOSE r \in {F(v) : v \in {e}} : TRUE

\* ws.readyState === 1
isOpen(to) ==
    IF to[1] = "host" THEN hostReady[to[2]] = "OPEN"
    ELSE playerReady[to[2]] = "OPEN"

send(w, to, t, d) ==
    IF isOpen(to) THEN [w EXCEPT !.out = Append(@, Msg(to, t, d))] ELSE w

sendToHost(w, t, d) ==
    Once(w, LAMBDA v :
        IF v.game.hostWs # NoHost THEN send(v, ToHost(v.game.hostWs), t, d)
        ELSE v)

\* Map iteration order is insertion order; ids are handed out increasingly
\* and never reused, so insertion order is increasing id.
RECURSIVE idSeq(_)
idSeq(S) ==
    IF S = {} THEN <<>>
    ELSE LET m == CHOOSE x \in S : \A y \in S : x <= y
         IN <<m>> \o idSeq(S \ {m})

playerSeq(players) ==
    Once(idSeq(DOMAIN players), LAMBDA ids :
        [i \in 1..Len(ids) |-> players[ids[i]]])

names(players) ==
    LET ps == playerSeq(players) IN [i \in 1..Len(ps) |-> ps[i].name]

RECURSIVE sendEach(_, _, _, _)
sendEach(w, ps, t, d) ==
    IF ps = <<>> THEN w
    ELSE sendEach(send(w, ToPlayer(Head(ps).ws), t, d), Tail(ps), t, d)

sendPlayers(w, t, d) ==
    Once(w, LAMBDA v :
        Once(playerSeq(v.game.players), LAMBDA ps : sendEach(v, ps, t, d)))

broadcast(w, t, d) == sendToHost(sendPlayers(w, t, d), t, d)

\* Array.prototype.sort is stable: insert each entry after the entries whose
\* score is at least its own.
\* insertByScore putting an entry before the entries of the same score.
RECURSIVE insertByScoreUnstable(_, _)
insertByScoreUnstable(sorted, e) ==
    IF sorted = <<>> THEN <<e>>
    ELSE IF Head(sorted).score > e.score
         THEN <<Head(sorted)>> \o insertByScoreUnstable(Tail(sorted), e)
         ELSE <<e>> \o sorted

RECURSIVE insertByScore(_, _)
insertByScore(sorted, e) ==
    IF sorted = <<>> THEN <<e>>
    ELSE IF Head(sorted).score >= e.score
         THEN <<Head(sorted)>> \o insertByScore(Tail(sorted), e)
         ELSE <<e>> \o sorted

RECURSIVE sortByScore(_, _)
sortByScore(sorted, rest) ==
    IF rest = <<>> THEN sorted
    ELSE sortByScore(insertByScore(sorted, Head(rest)), Tail(rest))

getLeaderboard(players) ==
    Once(playerSeq(players), LAMBDA ps :
        sortByScore(<<>>, [i \in 1..Len(ps) |->
                             [name |-> ps[i].name, score |-> ps[i].score]]))

slice(s, n) == SubSeq(s, 1, IF Len(s) < n THEN Len(s) ELSE n)

\* String(n) for an integer n >= 0: its decimal digits.
RECURSIVE String(_)
String(n) == IF n < 10 THEN <<n>> ELSE Append(String(n \div 10), n % 10)

\* Math.floor(1000 + Math.random() * 9000) with Math.random() = k / RandDenom.
drawPin(k) == String(1000 + ((k * 9000) \div RandDenom))

\* ------------------------------------------------------------- resetGame
clearInterval(iv, h) == iv \ {h}

\* resetGame that drops the timer handle without clearing the interval.
resetGameNoClear(w, k) ==
    LET qs == IF csv.readable THEN loadQuestions(csv) ELSE w.questions
    IN [w EXCEPT !.questions = qs,
                 !.game = [@ EXCEPT !.pin = drawPin(k),
                                    !.state = "lobby",
                                    !.players = <<>>,
                                    !.questions = qs,
                                    !.currentQuestion = -1,
                                    !.timer = null,
                                    !.timeRemaining = 0,
                                    !.answerCount = 0]]

resetGame(w, k) ==
    LET iv == IF w.game.timer # null THEN clearInterval(w.intervals, w.game.timer)
              ELSE w.intervals
        qs == IF csv.readable THEN loadQuestions(csv) ELSE w.questions
    IN [w EXCEPT !.intervals = iv,
                 !.questions = qs,
                 !.game = [@ EXCEPT !.pin = drawPin(k),
                                    !.state = "lobby",
                                    !.players = <<>>,
                                    !.questions = qs,
                                    !.currentQuestion = -1,
                                    !.timer = null,
                                    !.timeRemaining = 0,
                                    !.answerCount = 0]]

\* ---------------------------------------------------- endGame, revealAnswer
endGame(w) ==
    LET w1 == [w EXCEPT !.game.state = "leaderboard"]
    IN broadcast(w1, "leaderboard",
                 [leaderboard |-> getLeaderboard(w1.game.players)])

\* timeBonus with Math.floor for Math.round.
timeBonusFloor(answerTime, timeLimit) ==
    LET a == IF timeLimit < 0 THEN 0 - answerTime ELSE answerTime
        t == IF timeLimit < 0 THEN 0 - timeLimit ELSE timeLimit
    IN (1000 * a) \div t

\* Math.round(x) is floor(x + 1/2); x = 1000 * answerTime / timeLimit.
timeBonus(answerTime, timeLimit) ==
    LET a == IF timeLimit < 0 THEN 0 - answerTime ELSE answerTime
        t == IF timeLimit < 0 THEN 0 - timeLimit ELSE timeLimit
    IN ((2000 * a) + t) \div (2 * t)

points(p, q) ==
    IF p.answer # null /\ p.answer = q.correct
    THEN 1000 + timeBonus(p.answerTime, q.timeLimit)
    ELSE 0

scored(p, q) == [p EXCEPT !.lastPoints = points(p, q), !.score = @ + points(p, q)]

distribution(players, q) ==
    [i \in 1..Len(q.options) |->
        Cardinality({id \in DOMAIN players : players[id].answer = i})]

RECURSIVE sendResults(_, _, _, _)
sendResults(w, ps, q, isLast) ==
    IF ps = <<>> THEN w
    ELSE sendResults(
            send(w, ToPlayer(Head(ps).ws), "result",
                 [correct |-> q.correct, yourAnswer |-> Head(ps).answer,
                  points |-> Head(ps).lastPoints, totalScore |-> Head(ps).score,
                  isLast |-> isLast]),
            Tail(ps), q, isLast)

\* revealAnswer without its guard on the phase and without cancelling the
\* countdown.
revealAnswerUnguarded(w) ==
    LET g == w.game
        q == g.questions[g.currentQuestion + 1]
        ps == [id \in DOMAIN g.players |-> scored(g.players[id], q)]
        isLast == g.currentQuestion >= Len(g.questions) - 1
        w1 == [w EXCEPT !.game = [@ EXCEPT !.state = "reveal", !.players = ps]]
        w2 == sendToHost(w1, "results",
                 [correct |-> q.correct,
                  distribution |-> distribution(g.players, q),
                  options |-> q.options,
                  leaderboard |-> slice(getLeaderboard(ps), 5),
                  isLast |-> isLast])
    IN sendResults(w2, playerSeq(ps), q, isLast)

\* revealed leaving the countdown scheduled.
revealedKeepTimer(w, g, q, ps) ==
    LET isLast == g.currentQuestion >= Len(g.questions) - 1
        w1 == [w EXCEPT !.game = [@ EXCEPT !.state = "reveal",
                                           !.players = ps]]
        w2 == sendToHost(w1, "results",
                 [correct |-> q.correct,
                  distribution |-> distribution(g.players, q),
                  options |-> q.options,
                  leaderboard |-> slice(getLeaderboard(ps), 5),
                  isLast |-> isLast])
    IN Once(playerSeq(ps), LAMBDA pseq : sendResults(w2, pseq, q, isLast))

revealed(w, g, q, ps) ==
    LET iv == IF g.timer # null THEN clearInterval(w.intervals, g.timer)
              ELSE w.intervals
        isLast == g.currentQuestion >= Len(g.questions) - 1
        w1 == [w EXCEPT !.intervals = iv,
                        !.game = [@ EXCEPT !.timer = null,
                                           !.state = "reveal",
                                           !.players = ps]]
        w2 == sendToHost(w1, "results",
                 [correct |-> q.correct,
                  distribution |-> distribution(g.players, q),
                  options |-> q.options,
                  leaderboard |-> slice(getLeaderboard(ps), 5),
                  isLast |-> isLast])
    IN Once(playerSeq(ps), LAMBDA pseq : sendResults(w2, pseq, q, isLast))

revealAnswer(w) ==
    Once(w, LAMBDA v :
        IF v.game.state # "question" THEN v
        ELSE Once(v.game.questions[v.game.currentQuestion + 1], LAMBDA q :
             Once([id \in DOMAIN v.game.players |->
                      scored(v.game.players[id], q)], LAMBDA ps :
             revealed(v, v.game, q, ps))))

\* ---------------------------------------------------------- startQuestion
newInterval(iv) == CHOOSE h \in 1..(Cardinality(iv) + 1) : h \notin iv

\* startQuestion that does not reset the answer count.
startQuestionKeepCount(w) ==
    LET cq == w.game.currentQuestion + 1
        w0 == [w EXCEPT !.game.currentQuestion = cq]
    IN IF cq >= Len(w.game.questions) THEN endGame(w0)
       ELSE
       LET q == w.game.questions[cq + 1]
           h == newInterval(w.intervals)
           w1 == [w0 EXCEPT
                    !.game = [@ EXCEPT
                        !.state = "question",
                        !.timeRemaining = q.timeLimit,
                        !.players = [id \in DOMAIN @ |->
                                       [@[id] EXCEPT !.answer = null,
                                                     !.answerTime = null]]]]
           w2 == broadcast(w1, "question",
                    [index |-> cq, total |-> Len(w.game.questions),
                     options |-> q.options, timeLimit |-> q.timeLimit])
       IN [w2 EXCEPT !.game.timer = h, !.intervals = @ \cup {h}]

startQuestion(w) ==
    LET cq == w.game.currentQuestion + 1
        w0 == [w EXCEPT !.game.currentQuestion = cq]
    IN IF cq >= Len(w.game.questions) THEN endGame(w0)
       ELSE
       LET q == w.game.questions[cq + 1]
           h == newInterval(w.intervals)
           w1 == [w0 EXCEPT
                    !.game = [@ EXCEPT
                        !.state = "question",
                        !.answerCount = 0,
                        !.timeRemaining = q.timeLimit,
                        !.players = [id \in DOMAIN @ |->
                                       [@[id] EXCEPT !.answer = null,
                                                     !.answerTime = null]]]]
           w2 == broadcast(w1, "question",
                    [index |-> cq, total |-> Len(w.game.questions),
                     options |-> q.options, timeLimit |-> q.timeLimit])
       IN [w2 EXCEPT !.game.timer = h, !.intervals = @ \cup {h}]

\* ------------------------------------------------------ string conversions
\* Strings a client sends are sequences of one-character strings.
RECURSIVE trimStart(_)
trimStart(s) == IF s # <<>> /\ Head(s) = " " THEN trimStart(Tail(s)) ELSE s

RECURSIVE trimEnd(_)
trimEnd(s) ==
    IF s # <<>> /\ s[Len(s)] = " " THEN trimEnd(SubSeq(s, 1, Len(s) - 1)) ELSE s

trim(s) == trimEnd(trimStart(s))

lowerChar(ch) == IF ch = "A" THEN "a" ELSE IF ch = "B" THEN "b" ELSE ch

toLowerCase(s) == [i \in 1..Len(s) |-> lowerChar(s[i])]

Digits == {"0", "1", "2", "3", "4", "5", "6", "7", "8", "9"}

digitValue(ch) ==
    CASE ch = "0" -> 0 [] ch = "1" -> 1 [] ch = "2" -> 2 [] ch = "3" -> 3
      [] ch = "4" -> 4 [] ch = "5" -> 5 [] ch = "6" -> 6 [] ch = "7" -> 7
      [] ch = "8" -> 8 [] ch = "9" -> 9

RECURSIVE digitPrefix(_)
digitPrefix(s) ==
    IF s # <<>> /\ Head(s) \in Digits THEN <<Head(s)>> \o digitPrefix(Tail(s))
    ELSE <<>>

RECURSIVE digitsValue(_)
digitsValue(ds) ==
    IF ds = <<>> THEN 0
    ELSE (10 * digitsValue(SubSeq(ds, 1, Len(ds) - 1))) + digitValue(ds[Len(ds)])

\* parseInt(x, 10) of the text of x: leading blanks, an optional sign, then the
\* longest run of digits; NaN when there is none.  What follows is ignored.
parseInt(s) ==
    LET t == trimStart(s)
        neg == t # <<>> /\ Head(t) = "-"
        ds == digitPrefix(IF neg THEN Tail(t) ELSE t)
    IN IF ds = <<>> THEN NaN
       ELSE IF neg THEN 0 - digitsValue(ds) ELSE digitsValue(ds)

\* ----------------------------------------------------------------- inputs
NameMax == 20
RawNames == { <<>>, <<" ">>, <<"a">>, <<"A">>, <<" ", "b">> }
WrongPin == 1234
JoinPins == {0, WrongPin} \cup {1000 + ((k * 9000) \div RandDenom) : k \in 0..(RandDenom - 1)}
RawAnswers == { <<"0">>, <<"1">>, <<"2">>, <<"3">>, <<"4">>, <<"1", ".", "5">>,
                <<"x">> }
HostTypes == {"start", "next", "reset"}

\* ------------------------------------------------------------------- Init
\* The process has started: questions.csv was read, nobody is connected.
Start(files, hosts) ==
    /\ csv \in files
    /\ writes = 0
    /\ questions = loadQuestions(csv)
    /\ game = [pin |-> <<>>, state |-> "idle", players |-> <<>>,
               questions |-> loadQuestions(csv), currentQuestion |-> -1,
               timer |-> null, timeRemaining |-> 0, hostWs |-> NoHost,
               answerCount |-> 0]
    /\ nextPlayerId = 1
    /\ hostReady = [h \in hosts |-> "CLOSED"]
    /\ playerReady = [c \in PConns |-> "NONE"]
    /\ playerId = [c \in PConns |-> null]
    /\ intervals = {}
    /\ stale = {}

Init == Start(CsvFiles, HConns)

\* One host socket at a time and the two-question file.
InitOneHost == Start({CsvTwo}, {1})

Commit(w) ==
    \E v \in {w} :
        /\ game' = v.game
        /\ questions' = v.questions
        /\ intervals' = v.intervals
        /\ nextPlayerId' = v.nextPlayerId
        /\ playerId' = v.playerId

\* Sockets whose playerId was assigned before the reset that is happening.
joinedBefore == {c \in PConns : playerId[c] # null}

\* -------------------------------------------------------------- handleHost
\* A host socket connects: handleHost(ws) up to the registration of its
\* listeners.  The new socket is open, so its `lobby` message is sent.
handleHost(h, k) ==
    LET w0 == sendPlayers(World, "host-disconnected", <<>>)
        w1 == resetGame([w0 EXCEPT !.game.hostWs = h], k)
    IN [w1 EXCEPT !.out = Append(@, Msg(ToHost(h), "lobby",
                     [pin |-> w1.game.pin, players |-> names(w1.game.players)]))]

\* A closed host socket is referenced nowhere (hostWs was cleared or
\* overwritten), so its slot stands for the next socket to connect.
HostConnect(h, k) ==
    /\ hostReady[h] = "CLOSED"
    /\ \A i \in DOMAIN hostReady : i < h => hostReady[i] = "OPEN"
    /\ hostReady' = [hostReady EXCEPT ![h] = "OPEN"]
    /\ Commit(handleHost(h, k))
    /\ stale' = joinedBefore
    /\ UNCHANGED <<csv, writes, playerReady>>

hostStart(h) ==
    IF game.state = "lobby"
    THEN IF Cardinality(DOMAIN game.players) = 0
         THEN send(World, ToHost(h), "error", [message |-> "Need at least 1 player"])
         ELSE startQuestion(World)
    ELSE World

HostStart(h) ==
    /\ hostReady[h] = "OPEN"
    /\ Commit(hostStart(h))
    /\ UNCHANGED <<csv, writes, hostReady, playerReady, stale>>

\* next without the test of the phase.
hostNextUnguarded(h) == startQuestion(World)

hostNext(h) == IF game.state = "reveal" THEN startQuestion(World) ELSE World

HostNext(h) ==
    /\ hostReady[h] = "OPEN"
    /\ Commit(hostNext(h))
    /\ UNCHANGED <<csv, writes, hostReady, playerReady, stale>>

hostReset(h, k) ==
    LET w1 == resetGame(World, k)
    IN send(w1, ToHost(h), "lobby", [pin |-> w1.game.pin, players |-> <<>>])

HostReset(h, k) ==
    /\ hostReady[h] = "OPEN"
    /\ Commit(hostReset(h, k))
    /\ stale' = joinedBefore
    /\ UNCHANGED <<csv, writes, hostReady, playerReady>>

\* hostClose without the test that the socket is the registered host.
hostCloseAny(h) ==
    sendPlayers([World EXCEPT !.game.hostWs = NoHost], "host-disconnected", <<>>)

hostClose(h) ==
    IF game.hostWs = h
    THEN sendPlayers([World EXCEPT !.game.hostWs = NoHost], "host-disconnected", <<>>)
    ELSE World

HostClose(h) ==
    /\ hostReady[h] = "OPEN"
    /\ hostReady' = [hostReady EXCEPT ![h] = "CLOSED"]
    /\ Commit(hostClose(h))
    /\ UNCHANGED <<csv, writes, playerReady, stale>>

\* ------------------------------------------------------------ handlePlayer
\* A player socket connects: handlePlayer(ws) up to its listeners.
handlePlayer(c) == [World EXCEPT !.playerId[c] = null]

PlayerConnect(c) ==
    /\ playerReady[c] = "NONE"
    /\ \A i \in PConns : i < c => playerReady[i] # "NONE"
    /\ playerReady' = [playerReady EXCEPT ![c] = "OPEN"]
    /\ Commit(handlePlayer(c))
    /\ UNCHANGED <<csv, writes, hostReady, stale>>

\* nameTaken comparing the names as they are, case included.
nameTakenExact(players, name) ==
    \E id \in DOMAIN players : players[id].name = name

nameTaken(players, name) ==
    \E id \in DOMAIN players : toLowerCase(players[id].name) = toLowerCase(name)

\* joinVerdict without the test of the phase.
joinVerdictAnyPhase(pin, name) ==
    IF pin = 0 \/ name = <<>> THEN "PIN and name required"
    ELSE IF String(pin) # game.pin THEN "Invalid PIN"
    ELSE IF slice(trim(name), NameMax) = <<>> THEN "Name cannot be empty"
    ELSE IF nameTaken(game.players, slice(trim(name), NameMax)) THEN "Name already taken"
    ELSE "ok"

\* The early returns of the join branch: the error text, or "ok".
joinVerdict(pin, name) ==
    IF pin = 0 \/ name = <<>> THEN "PIN and name required"
    ELSE IF String(pin) # game.pin THEN "Invalid PIN"
    ELSE IF game.state # "lobby" THEN "Game already in progress"
    ELSE IF slice(trim(name), NameMax) = <<>> THEN "Name cannot be empty"
    ELSE IF nameTaken(game.players, slice(trim(name), NameMax)) THEN "Name already taken"
    ELSE "ok"

\* An id taken from the size of the player map instead of the counter.
allocPlayerIdBySize(n, players) == Cardinality(DOMAIN players) + 1

\* String(nextPlayerId++): the id is the counter's value.
allocPlayerId(n, players) == n

newPlayer(c, trimmedName) ==
    [name |-> trimmedName, ws |-> c, score |-> 0, answer |-> null,
     answerTime |-> null, lastPoints |-> 0]

playerJoin(c, pin, name) ==
    IF joinVerdict(pin, name) # "ok"
    THEN send(World, ToPlayer(c), "error", [message |-> joinVerdict(pin, name)])
    ELSE
    LET trimmedName == slice(trim(name), NameMax)
        id == allocPlayerId(nextPlayerId, game.players)
        ps == [i \in DOMAIN game.players \cup {id} |->
                 IF i = id THEN newPlayer(c, trimmedName) ELSE game.players[i]]
        w1 == [World EXCEPT !.playerId[c] = id,
                            !.nextPlayerId = @ + 1,
                            !.game.players = ps]
        w2 == send(w1, ToPlayer(c), "joined", [name |-> trimmedName])
    IN sendToHost(w2, "player-joined",
          [name |-> trimmedName, count |-> Cardinality(DOMAIN ps),
           players |-> names(ps)])

PlayerJoin(c, pin, name) ==
    /\ playerReady[c] = "OPEN"
    /\ joinVerdict(pin, name) = "ok" => nextPlayerId <= MaxPlayerId
    /\ Commit(playerJoin(c, pin, name))
    /\ stale' = IF joinVerdict(pin, name) = "ok" THEN stale \ {c} ELSE stale
    /\ UNCHANGED <<csv, writes, hostReady, playerReady>>

\* Whether the answer branch gets past its early returns.
answerAccepted(c, raw) ==
    /\ playerId[c] # null
    /\ game.state = "question"
    /\ playerId[c] \in DOMAIN game.players
    /\ game.players[playerId[c]].answer = null
    /\ ~isNaN(parseInt(raw))
    /\ parseInt(raw) >= 1
    /\ parseInt(raw) <= Len(game.questions[game.currentQuestion + 1].options)

\* playerAnswer with the auto-reveal test off by one (> for >=).
playerAnswerRevealLate(c, raw) ==
    IF ~answerAccepted(c, raw) THEN World
    ELSE
    LET w1 == [World EXCEPT
                 !.game.players[playerId[c]] =
                     [@ EXCEPT !.answer = parseInt(raw),
                               !.answerTime = game.timeRemaining],
                 !.game.answerCount = @ + 1]
        w2 == send(w1, ToPlayer(c), "answer-received", <<>>)
        w3 == sendToHost(w2, "answer-count",
                 [count |-> w1.game.answerCount,
                  total |-> Cardinality(DOMAIN w1.game.players)])
    IN IF w3.game.answerCount > Cardinality(DOMAIN w3.game.players)
       THEN revealAnswer(w3) ELSE w3

\* playerAnswer recording the time elapsed instead of the time remaining.
playerAnswerElapsed(c, raw) ==
    IF ~answerAccepted(c, raw) THEN World
    ELSE
    LET w1 == [World EXCEPT
                 !.game.players[playerId[c]] =
                     [@ EXCEPT !.answer = parseInt(raw),
                               !.answerTime =
                                   game.questions[game.currentQuestion + 1].timeLimit
                                      - game.timeRemaining],
                 !.game.answerCount = @ + 1]
        w2 == send(w1, ToPlayer(c), "answer-received", <<>>)
        w3 == sendToHost(w2, "answer-count",
                 [count |-> w1.game.answerCount,
                  total |-> Cardinality(DOMAIN w1.game.players)])
    IN IF w3.game.answerCount >= Cardinality(DOMAIN w3.game.players)
       THEN revealAnswer(w3) ELSE w3

playerAnswer(c, raw) ==
    IF ~answerAccepted(c, raw) THEN World
    ELSE
    LET w1 == [World EXCEPT
                 !.game.players[playerId[c]] =
                     [@ EXCEPT !.answer = parseInt(raw),
                               !.answerTime = game.timeRemaining],
                 !.game.answerCount = @ + 1]
        w2 == send(w1, ToPlayer(c), "answer-received", <<>>)
        w3 == sendToHost(w2, "answer-count",
                 [count |-> w1.game.answerCount,
                  total |-> Cardinality(DOMAIN w1.game.players)])
    IN IF w3.game.answerCount >= Cardinality(DOMAIN w3.game.players)
       THEN revealAnswer(w3) ELSE w3

PlayerAnswer(c, raw) ==
    /\ playerReady[c] = "OPEN"
    /\ Commit(playerAnswer(c, raw))
    /\ UNCHANGED <<csv, writes, hostReady, playerReady, stale>>

\* A message whose type handlePlayer does not know (start, next, reset).
playerOther(c, t) == World

PlayerOther(c, t) ==
    /\ playerReady[c] = "OPEN"
    /\ Commit(playerOther(c, t))
    /\ UNCHANGED <<csv, writes, hostReady, playerReady, stale>>

\* playerClose without the test of the phase.
playerCloseAnyPhase(c) ==
    IF playerId[c] # null
    THEN LET ps == [i \in DOMAIN game.players \ {playerId[c]} |-> game.players[i]]
             w1 == [World EXCEPT !.game.players = ps]
         IN IF playerId[c] \in DOMAIN game.players
            THEN sendToHost(w1, "player-left",
                    [name |-> game.players[playerId[c]].name,
                     count |-> Cardinality(DOMAIN ps), players |-> names(ps)])
            ELSE w1
    ELSE World

playerClose(c) ==
    IF playerId[c] # null /\ game.state = "lobby"
    THEN LET ps == [i \in DOMAIN game.players \ {playerId[c]} |-> game.players[i]]
             w1 == [World EXCEPT !.game.players = ps]
         IN IF playerId[c] \in DOMAIN game.players
            THEN sendToHost(w1, "player-left",
                    [name |-> game.players[playerId[c]].name,
                     count |-> Cardinality(DOMAIN ps), players |-> names(ps)])
            ELSE w1
    ELSE World

PlayerClose(c) ==
    /\ playerReady[c] = "OPEN"
    /\ playerReady' = [playerReady EXCEPT ![c] = "CLOSED"]
    /\ Commit(playerClose(c))
    /\ UNCHANGED <<csv, writes, hostReady, stale>>

\* ---------------------------------------------------------------- countdown
\* tick that cancels the countdown at zero and forgets to reveal.
tickNoReveal(h) ==
    LET w1 == [World EXCEPT !.game.timeRemaining = @ - 1]
    IN Once(broadcast(w1, "timer", [remaining |-> w1.game.timeRemaining]),
            LAMBDA w2 :
                IF w2.game.timeRemaining <= 0
                THEN [w2 EXCEPT
                        !.intervals = IF w2.game.timer # null
                                      THEN clearInterval(@, w2.game.timer)
                                      ELSE @,
                        !.game.timer = null]
                ELSE w2)

\* One firing of the setInterval callback registered under handle h.
tick(h) ==
    LET w1 == [World EXCEPT !.game.timeRemaining = @ - 1]
    IN Once(broadcast(w1, "timer", [remaining |-> w1.game.timeRemaining]),
            LAMBDA w2 :
                IF w2.game.timeRemaining <= 0
                THEN revealAnswer([w2 EXCEPT
                        !.intervals = IF w2.game.timer # null
                                      THEN clearInterval(@, w2.game.timer)
                                      ELSE @,
                        !.game.timer = null])
                ELSE w2)

Tick(h) ==
    /\ h \in intervals
    /\ Commit(tick(h))
    /\ UNCHANGED <<csv, writes, hostReady, playerReady, stale>>

\* ---------------------------------------------------------- questions.csv
\* The file is rewritten (or becomes unreadable) outside the process.
CsvWrite(content) ==
    /\ content # csv
    /\ writes < MaxWrites
    /\ writes' = writes + 1
    /\ csv' = content
    /\ UNCHANGED <<questions, game, nextPlayerId, hostReady, playerReady,
                   playerId, intervals, stale>>

\* watchChange handing the new questions to the session in every phase.
watchChangeAnyPhase ==
    IF ~csv.readable THEN World
    ELSE LET w1 == [World EXCEPT !.questions = loadQuestions(csv)]
         IN [w1 EXCEPT !.game.questions = w1.questions]

\* The fs.watch callback with eventType 'change'.
watchChange ==
    IF ~csv.readable THEN World
    ELSE LET w1 == [World EXCEPT !.questions = loadQuestions(csv)]
         IN IF game.state \in {"idle", "lobby"}
            THEN [w1 EXCEPT !.game.questions = w1.questions] ELSE w1

WatchChange ==
    /\ Commit(watchChange)
    /\ UNCHANGED <<csv, writes, hostReady, playerReady, stale>>

\* ------------------------------------------------------------------- Next
Draws == 0..(RandDenom - 1)

\* The sockets and the countdown; questions.csv stays as it was at start.
Next ==
    \/ \E h \in DOMAIN hostReady, k \in Draws : HostConnect(h, k)
    \/ \E h \in DOMAIN hostReady : HostStart(h)
    \/ \E h \in DOMAIN hostReady : HostNext(h)
    \/ \E h \in DOMAIN hostReady, k \in Draws : HostReset(h, k)
    \/ \E h \in DOMAIN hostReady : HostClose(h)
    \/ \E c \in PConns : PlayerConnect(c)
    \/ \E c \in PConns, pin \in JoinPins, name \in RawNames : PlayerJoin(c, pin, name)
    \/ \E c \in PConns, raw \in RawAnswers : PlayerAnswer(c, raw)
    \/ \E c \in PConns, t \in HostTypes : PlayerOther(c, t)
    \/ \E c \in PConns : PlayerClose(c)
    \/ \E h \in intervals : Tick(h)

Spec == Init /\ [][Next]_vars

\* setInterval keeps firing its callback while the handle is not cleared.
Countdown == \E h \in intervals : Tick(h)

FairSpec == InitOneHost /\ [][Next]_vars /\ WF_vars(Countdown)

\* What questions.csv may be rewritten to.
CsvContents == CsvFiles \cup {Unreadable}

\* The sockets, the countdown, and questions.csv being rewritten while the
\* server runs.
NextFile ==
    \/ Next
    \/ \E content \in CsvContents : CsvWrite(content)
    \/ WatchChange

FileSpec == InitOneHost /\ [][NextFile]_vars

\* ============================================================== properties
OpenHosts == {h \in DOMAIN hostReady : hostReady[h] = "OPEN"}
OpenPlayers == {c \in PConns : playerReady[c] = "OPEN"}
playerCount == Cardinality(DOMAIN game.players)
currentQ == game.questions[game.currentQuestion + 1]

\* P holds of what every handler that can run in the current state, on every
\* input, would do.
EveryHandler(P(_)) ==
    /\ \A h \in DOMAIN hostReady, k \in Draws :
          hostReady[h] = "CLOSED" => P(handleHost(h, k))
    /\ \A h \in OpenHosts :
          /\ P(hostStart(h)) /\ P(hostNext(h)) /\ P(hostClose(h))
          /\ \A k \in Draws : P(hostReset(h, k))
    /\ \A c \in PConns : playerReady[c] = "NONE" => P(handlePlayer(c))
    /\ \A c \in OpenPlayers :
          /\ P(playerClose(c))
          /\ \A pin \in JoinPins, name \in RawNames : P(playerJoin(c, pin, name))
          /\ \A raw \in RawAnswers : P(playerAnswer(c, raw))
          /\ \A t \in HostTypes : P(playerOther(c, t))
    /\ \A h \in intervals : P(tick(h))
    /\ P(watchChange)

Sends(w, types) == \E i \in 1..Len(w.out) : w.out[i].type \in types

\* The scores of the players of g2 that g1 already had.
ScoresKept(g1, g2) ==
    \A id \in DOMAIN g1.players \cap DOMAIN g2.players :
        g2.players[id].score = g1.players[id].score

\* ---------------------------------------------------------------------- C1
RevealOnly(w) ==
    /\ (Sends(w, {"result", "results"}) \/ ~ScoresKept(game, w.game))
          => game.state = "question" /\ w.game.state = "reveal"
    /\ \A id \in DOMAIN game.players \cap DOMAIN w.game.players :
          w.game.players[id].score >= game.players[id].score

\* C1: scoring and the result/results messages happen only in a step that
\* takes the phase from question to reveal, so at most once per entry into
\* question (a later countdown tick or answer does nothing of the kind); a
\* score changes only in that step and never goes down.
C1_RevealOnce ==
    /\ [](EveryHandler(RevealOnly))
    /\ [][ /\ ~ScoresKept(game, game') =>
                 game.state = "question" /\ game'.state = "reveal"
           /\ \A id \in DOMAIN game.players \cap DOMAIN game'.players :
                 game'.players[id].score >= game.players[id].score ]_vars

\* Reveal came from the countdown with one player scored and another who never
\* answered and whose socket can still send a late answer.
C1_Witness ==
    /\ game.state = "reveal"
    /\ game.timeRemaining <= 0
    /\ \E id \in DOMAIN game.players : game.players[id].score > 0
    /\ \E c \in OpenPlayers :
          /\ playerId[c] \in DOMAIN game.players
          /\ game.players[playerId[c]].answer = null

\* ---------------------------------------------------------------------- C2
\* The text of an integer: digits only.
IsIntegerText(raw) == raw # <<>> /\ \A i \in 1..Len(raw) : raw[i] \in Digits

MayAnswer(c) ==
    /\ game.state = "question"
    /\ playerId[c] \in DOMAIN game.players
    /\ game.players[playerId[c]].answer = null

FirstAnswerWins ==
    \A id \in DOMAIN game.players \cap DOMAIN game'.players :
        (/\ game.players[id].answer # null
         /\ \/ game'.players[id].answer # game.players[id].answer
            \/ game'.players[id].answerTime # game.players[id].answerTime)
        => game'.state = "question" /\ game'.currentQuestion # game.currentQuestion

\* C2: an answer message changes the state only in phase question, from a
\* joined player with no recorded answer, and with an index that is an integer
\* in [1, number of options of the current question]; otherwise nothing changes
\* and nothing is sent.  A recorded answer and its captured remaining time stay
\* as they are until the next question starts.
C2_AnswerAcceptance ==
    /\ [](\A c \in OpenPlayers, raw \in RawAnswers :
            ~(/\ MayAnswer(c)
              /\ IsIntegerText(raw)
              /\ digitsValue(raw) \in 1..Len(currentQ.options))
            => playerAnswer(c, raw) = World)
    /\ [][FirstAnswerWins]_vars

\* C2 with "the index" read as what parseInt makes of the submitted value:
\* this is what the handler enforces.
C2_AcceptanceParsed ==
    /\ [](\A c \in OpenPlayers, raw \in RawAnswers :
            ~(/\ MayAnswer(c)
              /\ parseInt(raw) # NaN
              /\ parseInt(raw) \in 1..Len(currentQ.options))
            => playerAnswer(c, raw) = World)
    /\ [][FirstAnswerWins]_vars

\* ---------------------------------------------------------------------- C3
\* C3: while the phase is question fewer players have answered than have
\* joined; an accepted answer raises the count by one and moves the phase to
\* reveal exactly when the count then equals the number of joined players.
C3_AutoReveal ==
    /\ game.state = "question" => game.answerCount < playerCount
    /\ \A c \in OpenPlayers, raw \in RawAnswers :
          LET w == playerAnswer(c, raw)
          IN w.game.answerCount # game.answerCount =>
                /\ w.game.answerCount = game.answerCount + 1
                /\ (w.game.state = "reveal") <=> (w.game.answerCount = playerCount)
                /\ w.game.state \in {"question", "reveal"}

\* Two players, both answered before the countdown ran out: the second answer
\* revealed, the first did not.
C3_Witness ==
    /\ game.state = "reveal"
    /\ game.timeRemaining > 0
    /\ playerCount = 2
    /\ game.answerCount = 2

\* ---------------------------------------------------------------------- C4
\* C4: with the countdown firing as long as it is scheduled, a session in
\* phase question eventually leaves it, whatever the players do.
C4_QuestionEnds == (game.state = "question") ~> (game.state # "question")

\* The countdown revealed a question nobody answered, every player socket
\* being closed by then.
C4_Witness ==
    /\ game.state = "reveal"
    /\ playerCount > 0
    /\ game.answerCount = 0
    /\ \A c \in PConns : playerReady[c] = "CLOSED"

\* ---------------------------------------------------------------------- C5
MaxLimit == 4   \* time limits the scoring formula is tried on

\* b is 1000 * a / t rounded to the nearest integer, halves up (t > 0).
IsRounded(b, a, t) == (2 * t * b <= (2000 * a) + t) /\ ((2000 * a) + t < 2 * t * (b + 1))

\* What the claim awards to player p for question q.
Award(p, q) ==
    IF p.answer # null /\ p.answer = q.correct
    THEN LET a == IF q.timeLimit < 0 THEN 0 - p.answerTime ELSE p.answerTime
             t == IF q.timeLimit < 0 THEN 0 - q.timeLimit ELSE q.timeLimit
         IN 1000 + (CHOOSE b \in 0..1000 : IsRounded(b, a, t))
    ELSE 0

ScoredAsClaimed(w) ==
    (game.state = "question" /\ w.game.state = "reveal") =>
        \A id \in DOMAIN w.game.players :
            LET p == w.game.players[id]
                got == p.score - game.players[id].score
            IN /\ got = Award(p, currentQ)
               /\ p.lastPoints = got
               /\ (p.answer = currentQ.correct /\ p.answerTime = currentQ.timeLimit)
                     => got = 2000
               /\ (p.answer = null \/ p.answer # currentQ.correct) => got = 0
               /\ currentQ.correct \notin 1..Len(currentQ.options) => got = 0

\* C5: at reveal a player whose answer is the correct index gets
\* 1000 + round(1000 * remainingAtAnswer / timeLimit), 2000 when answered with
\* the full time left and 1000 with none left; any other player gets 0; with a
\* correct index outside the options everybody gets 0 and the countdown's last
\* tick still reveals.
C5_Scoring ==
    /\ EveryHandler(ScoredAsClaimed)
    /\ \A h \in intervals :
          (game.state = "question" /\ game.timeRemaining <= 1)
             => tick(h).game.state = "reveal"
    /\ \A t \in 1..MaxLimit :
          /\ timeBonus(t, t) = 1000
          /\ timeBonus(0, t) = 0
          /\ \A a \in 0..t : IsRounded(timeBonus(a, t), a, t)

\* The second question, whose correct index is not an option, is revealed:
\* a player who scored 2000 on the first one answered it and got nothing.
C5_Witness ==
    /\ game.state = "reveal"
    /\ game.currentQuestion = 1
    /\ currentQ.correct \notin 1..Len(currentQ.options)
    /\ \E id \in DOMAIN game.players :
          /\ game.players[id].answer # null
          /\ game.players[id].lastPoints = 0
          /\ game.players[id].score = 2000

\* ---------------------------------------------------------------------- C6
IsJoinCode(pin) ==
    /\ Len(pin) = 4
    /\ \A i \in 1..4 : pin[i] \in 0..9
    /\ pin[1] >= 1

FreshLobby(w) ==
    /\ w.game.state = "lobby"
    /\ DOMAIN w.game.players = {}
    /\ w.game.currentQuestion = -1
    /\ w.game.answerCount = 0
    /\ w.game.timer = null
    /\ w.intervals = {}
    /\ IsJoinCode(w.game.pin)

\* C6: a reset message from a host, in any phase, and a host socket
\* connecting leave phase lobby, no players, cursor -1, answer count 0, no
\* countdown scheduled and a join code of four digits in [1000, 9999].
C6_ResetPostcondition ==
    /\ \A h \in OpenHosts, k \in Draws : FreshLobby(hostReset(h, k))
    /\ \A h \in DOMAIN hostReady, k \in Draws :
          hostReady[h] = "CLOSED" => FreshLobby(handleHost(h, k))

\* A lobby that a reset produced after players had joined an earlier session.
C6_Witness ==
    /\ game.state = "lobby"
    /\ FreshLobby(World)
    /\ stale # {}

\* ---------------------------------------------------------------------- C7
\* C7: an answer message or a close event on a socket that joined before the
\* last reset and has not joined since changes nothing and sends nothing, in
\* whatever phase the new session is.
C7_StaleClientsIgnored ==
    \A c \in stale \cap OpenPlayers :
        /\ \A raw \in RawAnswers : playerAnswer(c, raw) = World
        /\ playerClose(c) = World

\* A question of the new session is running with a joined player who has not
\* answered, while a socket of the old session is still open.
C7_Witness ==
    /\ game.state = "question"
    /\ stale \cap OpenPlayers # {}
    /\ \E id \in DOMAIN game.players : game.players[id].answer = null

\* ---------------------------------------------------------------------- C8
CasePairs == {<<"a", "A">>, <<"A", "a">>, <<"b", "B">>, <<"B", "b">>}

SameIgnoringCase(a, b) ==
    /\ Len(a) = Len(b)
    /\ \A i \in 1..Len(a) : a[i] = b[i] \/ <<a[i], b[i]>> \in CasePairs

HasVisibleChar(name) == \E i \in 1..Len(name) : name[i] # " "

NewPlayers(g1, g2) == DOMAIN g2.players \ DOMAIN g1.players

\* The only reply is one error message to the socket `to`.
OnlyError(w, to) ==
    /\ Len(w.out) = 1
    /\ w.out[1].to = to
    /\ w.out[1].type = "error"

\* Nothing but the reply distinguishes w from the current state.
Untouched(w) == [w EXCEPT !.out = <<>>] = World

\* C8: a player is created only by a join message received in phase lobby
\* with the current join code and a name that is not empty; no two joined
\* players have names equal ignoring case, and a join under a name that
\* differs only by case from a joined player's gets an error and creates
\* nothing.
C8_JoinAdmission ==
    /\ [](\A id1, id2 \in DOMAIN game.players :
            id1 # id2 => ~SameIgnoringCase(game.players[id1].name,
                                           game.players[id2].name))
    /\ [](\A c \in OpenPlayers, pin \in JoinPins, name \in RawNames :
            (\E id \in DOMAIN game.players :
                SameIgnoringCase(game.players[id].name, trim(name)))
            => /\ OnlyError(playerJoin(c, pin, name), ToPlayer(c))
               /\ Untouched(playerJoin(c, pin, name)))
    /\ [][ NewPlayers(game, game') # {} =>
             /\ game.state = "lobby"
             /\ game'.state = "lobby"
             /\ \E c \in OpenPlayers, pin \in JoinPins, name \in RawNames :
                   /\ String(pin) = game.pin
                   /\ HasVisibleChar(name)
                   /\ game' = playerJoin(c, pin, name).game
                   /\ playerId' = playerJoin(c, pin, name).playerId ]_vars

\* Two players are in the lobby, one of them called "a", and an open socket can
\* still ask for "A".
C8_Witness ==
    /\ game.state = "lobby"
    /\ playerCount = 2
    /\ \E id \in DOMAIN game.players : game.players[id].name = <<"a">>
    /\ OpenPlayers # {}

\* ---------------------------------------------------------------------- C9
\* The join cannot be admitted: wrong code, a name taken or blank, or a phase
\* other than lobby.
MustReject(pin, name) ==
    \/ String(pin) # game.pin
    \/ ~HasVisibleChar(name)
    \/ \E id \in DOMAIN game.players :
          SameIgnoringCase(game.players[id].name, trim(name))
    \/ game.state # "lobby"

\* C9: a join with a wrong pin, a duplicate name, an empty name or outside
\* phase lobby, and a start in lobby with no players, send one error message,
\* to the sender, and change nothing in the session.
C9_RejectedUntouched ==
    /\ \A c \in OpenPlayers, pin \in JoinPins, name \in RawNames :
          MustReject(pin, name) =>
             /\ OnlyError(playerJoin(c, pin, name), ToPlayer(c))
             /\ Untouched(playerJoin(c, pin, name))
    /\ \A h \in OpenHosts :
          (game.state = "lobby" /\ playerCount = 0) =>
             /\ OnlyError(hostStart(h), ToHost(h))
             /\ Untouched(hostStart(h))

\* A question is running and an open socket that has not joined can send a
\* join with the right code and a free name.
C9_Witness ==
    /\ game.state = "question"
    /\ \E c \in OpenPlayers : playerId[c] = null
    /\ \E name \in RawNames :
          /\ HasVisibleChar(name)
          /\ \A id \in DOMAIN game.players :
                ~SameIgnoringCase(game.players[id].name, trim(name))

\* --------------------------------------------------------------------- C10
atLast(g) == g.currentQuestion >= Len(g.questions) - 1

ByReset == \E h \in OpenHosts, k \in Draws : game' = hostReset(h, k).game
ByHostConnect ==
    \E h \in DOMAIN hostReady, k \in Draws :
        hostReady[h] = "CLOSED" /\ game' = handleHost(h, k).game
ByStart == \E h \in OpenHosts : game' = hostStart(h).game
ByNext == \E h \in OpenHosts : game' = hostNext(h).game

\* The phase changes the claim lists.
ListedChange ==
    \/ game.state = "idle" /\ game'.state = "lobby"
    \/ game.state = "lobby" /\ game'.state = "question" /\ ByStart
    \/ game.state = "question" /\ game'.state = "reveal"
    \/ game.state = "reveal" /\ game'.state = "question" /\ ByNext /\ ~atLast(game)
    \/ game.state = "reveal" /\ game'.state = "leaderboard" /\ ByNext /\ atLast(game)
    \/ game'.state = "lobby" /\ (ByReset \/ ByHostConnect)

\* A start in a lobby whose question bank is empty ends the game at once.
StartOnEmptyBank ==
    /\ game.state = "lobby"
    /\ game'.state = "leaderboard"
    /\ Len(game.questions) = 0
    /\ ByStart

LeaderboardStays ==
    (game.state = "leaderboard" /\ game'.state # "leaderboard")
        => (game'.state = "lobby" /\ (ByReset \/ ByHostConnect))

\* next on the last question shows the final leaderboard.
LastNextEnds ==
    \A h \in OpenHosts :
        (game.state = "reveal" /\ atLast(game))
            => hostNext(h).game.state = "leaderboard"

\* C10: every phase change is idle->lobby, lobby->question (start),
\* question->reveal, reveal->question (next), reveal->leaderboard (next on the
\* last question) or any->lobby (reset or host connect); a next at the last
\* question never re-enters question, and in phase leaderboard only a reset or
\* a host connect changes anything.
C10_PhaseTransitions ==
    /\ []LastNextEnds
    /\ [][ /\ game'.state # game.state => ListedChange
           /\ LeaderboardStays ]_vars

\* C10 with the one more change the code makes: lobby->leaderboard, by a
\* start when the question bank is empty.
C10_PhaseTransitionsAmended ==
    /\ []LastNextEnds
    /\ [][ /\ game'.state # game.state => (ListedChange \/ StartOnEmptyBank)
           /\ LeaderboardStays ]_vars

\* The game ended on a start, the bank being empty, with a player in it.
C10_Witness ==
    /\ game.state = "leaderboard"
    /\ Len(game.questions) = 0
    /\ playerCount >= 1

\* --------------------------------------------------------------------- C11
\* The names a leaderboard message lists.
Listed(lb) == {lb[i].name : i \in 1..Len(lb)}

ListsEveryPlayer(w) ==
    \A i \in 1..Len(w.out) :
        w.out[i].type = "leaderboard" =>
            Listed(w.out[i].data.leaderboard)
               = {w.game.players[id].name : id \in DOMAIN w.game.players}

\* C11: a player socket closing in phase lobby removes the player it joined
\* as and nothing else; closing in phase question, reveal or leaderboard
\* changes nothing (no player, score, answer, answer count, phase or
\* countdown), and a final leaderboard lists every player, gone or not.
C11_PlayerDisconnect ==
    /\ \A c \in OpenPlayers :
          /\ game.state \in {"question", "reveal", "leaderboard"}
                => playerClose(c) = World
          /\ (game.state = "lobby" /\ playerId[c] \in DOMAIN game.players)
                => /\ DOMAIN playerClose(c).game.players
                        = DOMAIN game.players \ {playerId[c]}
                   /\ \A id \in DOMAIN playerClose(c).game.players :
                         playerClose(c).game.players[id] = game.players[id]
                   /\ [playerClose(c).game EXCEPT !.players = game.players] = game
    /\ EveryHandler(ListsEveryPlayer)

\* The final leaderboard is up and a player who scored is on it although the
\* socket it joined through has closed.
C11_Witness ==
    /\ game.state = "leaderboard"
    /\ \E id \in DOMAIN game.players :
          /\ playerReady[game.players[id].ws] = "CLOSED"
          /\ game.players[id].score > 0

\* --------------------------------------------------------------------- C12
\* An open host socket that is not the registered host: a newer one took its
\* place.
Replaced(h) == hostReady[h] = "OPEN" /\ game.hostWs # h

\* C12: one socket at most has host authority: a start, next or reset from a
\* host socket that a newer one replaced changes nothing in the session, and
\* neither does a start, next or reset from a player socket, in any phase.
C12_HostAuthority ==
    /\ \A h \in DOMAIN hostReady :
          Replaced(h) =>
             /\ Untouched(hostStart(h))
             /\ Untouched(hostNext(h))
             /\ \A k \in Draws : Untouched(hostReset(h, k))
    /\ \A c \in OpenPlayers, t \in HostTypes : playerOther(c, t) = World

\* --------------------------------------------------------------------- C13
\* host-disconnected, once per joined player whose socket is open, and
\* nothing else.
OnlyHostDisconnected(w) ==
    /\ \A i \in 1..Len(w.out) : w.out[i].type = "host-disconnected"
    /\ \A c \in PConns :
          Cardinality({i \in 1..Len(w.out) : w.out[i].to = ToPlayer(c)})
             = IF playerReady[c] = "OPEN"
               THEN Cardinality({id \in DOMAIN game.players :
                                    game.players[id].ws = c})
               ELSE 0
    /\ \A i \in 1..Len(w.out) : w.out[i].to[1] = "player"

\* C13: the registered host socket closing clears the host reference and
\* sends host-disconnected to every joined player (a closed socket receives
\* nothing), leaving phase, players, scores, cursor, answer count, join code
\* and the countdown as they are; another host socket closing changes nothing
\* and sends nothing.
C13_HostDisconnect ==
    \A h \in OpenHosts :
        IF game.hostWs = h
        THEN /\ hostClose(h).game = [game EXCEPT !.hostWs = NoHost]
             /\ [hostClose(h) EXCEPT !.game = game, !.out = <<>>] = World
             /\ OnlyHostDisconnected(hostClose(h))
        ELSE hostClose(h) = World

\* The host left during a question: the countdown is still scheduled and the
\* players are still there.
C13_Witness ==
    /\ game.state = "question"
    /\ game.hostWs = NoHost
    /\ intervals # {}
    /\ OpenPlayers # {}
    /\ playerCount >= 1

\* --------------------------------------------------------------------- C14
Active == game.state \in {"question", "reveal", "leaderboard"}

\* C14: in phase question, reveal or leaderboard no event changes the
\* session's question bank, a reload of questions.csv included; the session
\* sees the file's questions at the next reset; a reload in phase idle or
\* lobby hands the file's questions to the session.
C14_BankSnapshot ==
    /\ [](Active => watchChange.game = game)
    /\ []((~Active /\ csv.readable)
             => watchChange.game.questions = loadQuestions(csv))
    /\ [](\A h \in OpenHosts, k \in Draws :
             csv.readable => hostReset(h, k).game.questions = loadQuestions(csv))
    /\ [][ (Active /\ game'.questions # game.questions)
              => (game'.state = "lobby" /\ (ByReset \/ ByHostConnect)) ]_vars

\* The file was rewritten and reloaded during a session, which still has the
\* questions it started with.
C14_Witness ==
    /\ Active
    /\ csv.readable
    /\ questions = loadQuestions(csv)
    /\ game.questions # questions

\* --------------------------------------------------------------------- C15
Min(a, b) == IF a < b THEN a ELSE b

\* The player a leaderboard entry stands for (names are unique).
idOf(e, players) == CHOOSE id \in DOMAIN players : players[id].name = e.name

\* Player id1 ranks before player id2: a higher score, or the same score and
\* joined earlier.
Before(id1, id2, players) ==
    \/ players[id1].score > players[id2].score
    \/ players[id1].score = players[id2].score /\ id1 < id2

\* lb is the first m entries of the ranking of players.
TopOf(lb, players, m) ==
    /\ Len(lb) = m
    /\ \A i \in 1..m :
          \E id \in DOMAIN players :
              lb[i] = [name |-> players[id].name, score |-> players[id].score]
    /\ \A i, j \in 1..m :
          i < j => Before(idOf(lb[i], players), idOf(lb[j], players), players)
    /\ \A id \in DOMAIN players :
          (\A i \in 1..m : lb[i].name # players[id].name)
             => \A i \in 1..m : Before(idOf(lb[i], players), id, players)

RankedMessages(w) ==
    \A i \in 1..Len(w.out) :
        /\ w.out[i].type = "results" =>
              TopOf(w.out[i].data.leaderboard, w.game.players,
                    Min(5, Cardinality(DOMAIN w.game.players)))
        /\ w.out[i].type = "leaderboard" =>
              TopOf(w.out[i].data.leaderboard, w.game.players,
                    Cardinality(DOMAIN w.game.players))

Scored(name, s) == [newPlayer(1, name) EXCEPT !.score = s]

\* A, B, C joined in this order with 300, 500, 500.
Three == << Scored(<<"A">>, 300), Scored(<<"B">>, 500), Scored(<<"C">>, 500) >>

\* Six players, more than the host is shown.
Six == << Scored(<<"A">>, 0), Scored(<<"B">>, 500), Scored(<<"C">>, 500),
          Scored(<<"D">>, 100), Scored(<<"E">>, 700), Scored(<<"F">>, 0) >>

\* C15: a leaderboard is ordered by score, highest first, players of equal
\* score in the order they joined (A=300, B=500, C=500 gives B, C, A); the
\* results message to the host carries its first min(5, players) entries and
\* the final leaderboard message carries all of it.
C15_LeaderboardOrder ==
    /\ EveryHandler(RankedMessages)
    /\ getLeaderboard(Three) =
          << [name |-> <<"B">>, score |-> 500], [name |-> <<"C">>, score |-> 500],
             [name |-> <<"A">>, score |-> 300] >>
    /\ TopOf(getLeaderboard(Six), Six, 6)
    /\ TopOf(slice(getLeaderboard(Six), 5), Six, 5)

\* Two players were revealed with the same score, above zero.
C15_Witness ==
    /\ game.state = "reveal"
    /\ \E id1, id2 \in DOMAIN game.players :
          /\ id1 < id2
          /\ game.players[id1].score = game.players[id2].score
          /\ game.players[id1].score > 0

\* --------------------------------------------------------------------- C16
\* C16: a countdown is scheduled exactly while the phase is question, never
\* more than one, and it is the one the game holds; so no tick runs once the
\* phase has left question, by the last answer or by a reset.
C16_CountdownDiscipline ==
    /\ (intervals # {}) <=> (game.state = "question")
    /\ Cardinality(intervals) <= 1
    /\ game.state = "question" => intervals = {game.timer}
    /\ game.state # "question" => game.timer = null

\* The last answer revealed the question with time left and the countdown is
\* gone.
C16_Witness ==
    /\ game.state = "reveal"
    /\ game.timeRemaining > 0
    /\ game.answerCount = playerCount
    /\ intervals = {}

\* --------------------------------------------------------------------- C17
IsCorrect(p, q) == p.answer # null /\ p.answer = q.correct

\* In a step that accepts the answer of player p, every player e whose answer
\* was accepted before has at least as much time captured as p.
CapturedInOrder ==
    \A e, p \in DOMAIN game.players \cap DOMAIN game'.players :
        (/\ game.state = "question"
         /\ game.players[e].answer # null
         /\ game.players[p].answer = null
         /\ game'.players[p].answer # null)
        => game'.players[e].answerTime >= game'.players[p].answerTime

\* At reveal, of two correct players the one with more time captured gets at
\* least as many points.
RewardsEarlier(w) ==
    (game.state = "question" /\ w.game.state = "reveal") =>
        \A e, p \in DOMAIN w.game.players :
            (/\ IsCorrect(w.game.players[e], currentQ)
             /\ IsCorrect(w.game.players[p], currentQ)
             /\ w.game.players[e].answerTime >= w.game.players[p].answerTime)
            => w.game.players[e].lastPoints >= w.game.players[p].lastPoints

\* C17: of two players who answer a question correctly, the one whose answer
\* was accepted earlier gets at least as many points: the remaining time is
\* captured when the answer is accepted, it only goes down during the
\* question, it stays as captured until the reveal, and the points grow with
\* it.
C17_EarlierScoresNoLess ==
    /\ [](EveryHandler(RewardsEarlier))
    /\ [][CapturedInOrder /\ FirstAnswerWins]_vars

\* Two correct answers with a tick between them: the earlier one scored more.
C17_Witness ==
    /\ game.state = "reveal"
    /\ \E e, p \in DOMAIN game.players :
          /\ IsCorrect(game.players[e], currentQ)
          /\ IsCorrect(game.players[p], currentQ)
          /\ game.players[e].answerTime > game.players[p].answerTime
          /\ game.players[e].lastPoints > game.players[p].lastPoints

\* --------------------------------------------------------------------- C18
RECURSIVE SumSeq(_)
SumSeq(q) == IF q = <<>> THEN 0 ELSE Head(q) + SumSeq(Tail(q))

Answered(g) == {id \in DOMAIN g.players : g.players[id].answer # null}

StartsClean(w) ==
    (game.state # "question" /\ w.game.state = "question") =>
        w.game.answerCount = 0 /\ Answered(w.game) = {}

DistributionCounts(w) ==
    \A i \in 1..Len(w.out) :
        w.out[i].type = "results" =>
            /\ Len(w.out[i].data.distribution) = Len(currentQ.options)
            /\ SumSeq(w.out[i].data.distribution) = w.game.answerCount
            /\ \A a \in 1..Len(currentQ.options) :
                  w.out[i].data.distribution[a] =
                     Cardinality({id \in DOMAIN w.game.players :
                                     w.game.players[id].answer = a})

\* C18: the answer count is the number of joined players with a recorded
\* answer and never more than the number of joined players; starting a
\* question sets it to 0 and clears every recorded answer; at reveal the
\* distribution sums to the count and its entry i is the number of players who
\* answered i.
C18_AnswerCount ==
    /\ game.answerCount = Cardinality(Answered(game))
    /\ game.answerCount <= playerCount
    /\ EveryHandler(StartsClean)
    /\ EveryHandler(DistributionCounts)

\* The second question was revealed by the countdown with one of two players
\* having answered it.
C18_Witness ==
    /\ game.state = "reveal"
    /\ game.currentQuestion = 1
    /\ playerCount = 2
    /\ game.answerCount = 1

\* --------------------------------------------------------------------- C19
\* C19: the session never holds two players created through the same socket,
\* whatever join messages the socket sends; so when a socket closes in phase
\* lobby no player created through it stays in the session.
C19_OneRecordPerConnection ==
    /\ \A id1, id2 \in DOMAIN game.players :
          id1 # id2 => game.players[id1].ws # game.players[id2].ws
    /\ \A c \in OpenPlayers :
          game.state = "lobby" =>
             \A id \in DOMAIN playerClose(c).game.players :
                 playerClose(c).game.players[id].ws # c

\* --------------------------------------------------------------------- C20
CursorFitsPhase ==
    /\ game.state = "lobby" => game.currentQuestion = -1
    /\ game.state \in {"question", "reveal"} =>
          /\ 0 <= game.currentQuestion
          /\ game.currentQuestion < Len(game.questions)
          /\ playerCount >= 1
    /\ game.state = "leaderboard" => game.currentQuestion = Len(game.questions)

\* C20: in phase lobby the cursor is -1; in phase question or reveal it
\* points into the question bank and a player is joined; in phase leaderboard
\* it equals the length of the bank; and in phase question the remaining time
\* is between 1 and the time limit of the current question.
C20_CursorAndPhase ==
    /\ CursorFitsPhase
    /\ game.state = "question" =>
          game.timeRemaining \in 1..currentQ.timeLimit

\* C20 for the questions whose time limit is a positive number: this is what
\* the code keeps.
C20_CursorAndPhasePositive ==
    /\ CursorFitsPhase
    /\ (game.state = "question" /\ currentQ.timeLimit >= 1) =>
          game.timeRemaining \in 1..currentQ.timeLimit

====
